---- MODULE Spec2Model ----
(***************************************************************************)
(* Dynamic Schema & Generic Data Engine plus the Context Store of the      *)
(* Data-Whisperer server (server/routes/tables.ts, data.ts, context.ts).   *)
(* The storage engine is the state; every route handler is an action.      *)
(* Identifiers and texts are sequences of one-character strings, so that   *)
(* the identifier grammar and trim() are computed, not assumed.            *)
(***************************************************************************)
EXTENDS Integers, Sequences, FiniteSets, TLC

(* ------------------------------ bounds -------------------------------- *)
\* number of request handlers that can be in flight at once
MaxProcs == 2
\* largest value of the logical clock behind CURRENT_TIMESTAMP
MaxClock == 2
\* largest number of rows a user table holds
MaxRows == 2
MaxCandidates == 4

Procs == 1..MaxProcs

(* ---------------------------- identifiers ----------------------------- *)
Lower == {"a","b","c","d","e","f","g","h","i","j","k","l","m",
          "n","o","p","q","r","s","t","u","v","w","x","y","z"}
Upper == {"A","B","C","D","E","F","G","H","I","J","K","L","M",
          "N","O","P","Q","R","S","T","U","V","W","X","Y","Z"}
Digit == {"0","1","2","3","4","5","6","7","8","9"}

\* /^[a-zA-Z_][a-zA-Z0-9_]*$/.test(s)
tableNameRegex(s) ==
    /\ Len(s) >= 1
    /\ s[1] \in Lower \cup Upper \cup {"_"}
    /\ \A i \in 2..Len(s) : s[i] \in Lower \cup Upper \cup Digit \cup {"_"}

\* the seven tokens of the type registry
allowedTypes == {"TEXT", "INTEGER", "REAL", "BOOLEAN", "TIMESTAMP", "VARCHAR(255)", "JSONB"}

\* names the engine owns
TableContextName == <<"T","a","b","l","e","C","o","n","t","e","x","t">>
PrismaMigrationsName ==
    <<"_","p","r","i","s","m","a","_","m","i","g","r","a","t","i","o","n","s">>
ReservedNames == {TableContextName, PrismaMigrationsName}

idCol == <<"i","d">>
createdAtCol == <<"c","r","e","a","t","e","d","_","a","t">>
updatedAtCol == <<"u","p","d","a","t","e","d","_","a","t">>
tableNameCol == <<"t","a","b","l","e","N","a","m","e">>
descriptionCol == <<"d","e","s","c","r","i","p","t","i","o","n">>
embeddingCol == <<"e","m","b","e","d","d","i","n","g">>

(* ------------------------------ values -------------------------------- *)
\* a stored or bound value: tagged, so that values of all types compare
NullV == [t |-> "null", n |-> 0, s |-> <<>>]
IntV(n) == [t |-> "int", n |-> n, s |-> <<>>]
TextV(s) == [t |-> "text", n |-> 0, s |-> s]
TimeV(n) == [t |-> "timestamp", n |-> n, s |-> <<>>]
\* the vector the embedding capability returns for a text: opaque, fixed by the text
Embed(text) == [t |-> "vector", n |-> 0, s |-> text]

(* -------------------------- storage engine ---------------------------- *)
\* a column of a materialized table
Column(name, type, nullable, dflt) ==
    [name |-> name, type |-> type, nullable |-> nullable, dflt |-> dflt]

ColumnNames(tab) == {tab.columns[i].name : i \in DOMAIN tab.columns}
ColumnOf(tab, c) == CHOOSE col \in {tab.columns[i] : i \in DOMAIN tab.columns} : col.name = c

\* does a column of this type take this value
TypeAccepts(type, v) ==
    \/ v.t = "null"
    \/ type \in {"SERIAL", "INTEGER", "REAL"} /\ v.t = "int"
    \/ type \in {"TEXT", "VARCHAR(255)"} /\ v.t = "text"
    \/ type = "TIMESTAMP" /\ v.t = "timestamp"
    \/ type = "UUID" /\ v.t = "uuid"
    \/ type = "vector" /\ v.t = "vector"

\* the result of one statement: the tables after it and the rows it returns
Failed(tabs, err) == [ok |-> FALSE, err |-> err, tables |-> tabs, rows |-> <<>>]
Done(tabs, rows) == [ok |-> TRUE, err |-> "", tables |-> tabs, rows |-> rows]

Range(f) == {f[i] : i \in DOMAIN f}
NoDuplicates(f) == \A i, j \in DOMAIN f : f[i] = f[j] => i = j

\* the columns CREATE TABLE gives every user table around the user's own
SerialIdColumn == Column(idCol, "SERIAL", FALSE, "serial")
CreatedAtColumn == Column(createdAtCol, "TIMESTAMP", TRUE, "now")
UpdatedAtColumn == Column(updatedAtCol, "TIMESTAMP", TRUE, "now")

\* a faulty variant: on an existing table the statement adds the columns it lacks
SqlCreateTableMerging(tabs, name, cols) ==
    LET all == <<SerialIdColumn>> \o cols \o <<CreatedAtColumn, UpdatedAtColumn>>
        tab == [columns |-> all, rows |-> {}, nextId |-> 1,
                unique |-> {}, trigger |-> FALSE]
        more == SelectSeq(cols, LAMBDA col : col.name \notin ColumnNames(tabs[name]))
        wide(r) == [c \in DOMAIN r \cup {more[i].name : i \in DOMAIN more} |->
                       IF c \in DOMAIN r THEN r[c] ELSE NullV]
    IN  IF name \in DOMAIN tabs
        THEN Done([tabs EXCEPT ![name] = [@ EXCEPT !.columns = @ \o more,
                                                   !.rows = {wide(r) : r \in @}]], <<>>)
        ELSE IF ~NoDuplicates([i \in DOMAIN all |-> all[i].name])
        THEN Failed(tabs, "column specified more than once")
        ELSE Done([n \in DOMAIN tabs \cup {name} |-> IF n = name THEN tab ELSE tabs[n]], <<>>)

\* a faulty variant: CREATE TABLE without IF NOT EXISTS semantics, replacing the table
SqlCreateTableReplacing(tabs, name, cols) ==
    LET all == <<SerialIdColumn>> \o cols \o <<CreatedAtColumn, UpdatedAtColumn>>
        tab == [columns |-> all, rows |-> {}, nextId |-> 1,
                unique |-> {}, trigger |-> FALSE]
    IN  IF ~NoDuplicates([i \in DOMAIN all |-> all[i].name])
        THEN Failed(tabs, "column specified more than once")
        ELSE Done([n \in DOMAIN tabs \cup {name} |-> IF n = name THEN tab ELSE tabs[n]], <<>>)

\* CREATE TABLE IF NOT EXISTS "name" (id SERIAL PRIMARY KEY, cols,
\*   created_at TIMESTAMP DEFAULT CURRENT_TIMESTAMP, updated_at ... )
SqlCreateTableIfNotExists(tabs, name, cols) ==
    LET all == <<SerialIdColumn>> \o cols \o <<CreatedAtColumn, UpdatedAtColumn>>
        tab == [columns |-> all, rows |-> {}, nextId |-> 1,
                unique |-> {}, trigger |-> FALSE]
    IN  IF name \in DOMAIN tabs THEN Done(tabs, <<>>)
        ELSE IF ~NoDuplicates([i \in DOMAIN all |-> all[i].name])
        THEN Failed(tabs, "column specified more than once")
        ELSE Done([n \in DOMAIN tabs \cup {name} |-> IF n = name THEN tab ELSE tabs[n]], <<>>)

\* ALTER TABLE "name" ADD COLUMN "col" type
SqlAddColumn(tabs, name, col, type) ==
    IF name \notin DOMAIN tabs THEN Failed(tabs, "relation does not exist")
    ELSE IF col \in ColumnNames(tabs[name]) THEN Failed(tabs, "column already exists")
    ELSE LET old == tabs[name]
             widen(r) == [c \in DOMAIN r \cup {col} |-> IF c = col THEN NullV ELSE r[c]]
             tab == [old EXCEPT !.columns = Append(@, Column(col, type, TRUE, "none")),
                                !.rows = {widen(r) : r \in old.rows}]
         IN  Done([tabs EXCEPT ![name] = tab], <<>>)

\* DROP TABLE IF EXISTS "name" CASCADE
SqlDropTableIfExists(tabs, name) ==
    Done([n \in DOMAIN tabs \ {name} |-> tabs[n]], <<>>)

\* position of a column name in a statement's column list (0: not listed)
IndexOf(cols, c) == IF c \in Range(cols) THEN CHOOSE i \in DOMAIN cols : cols[i] = c ELSE 0

\* a faulty variant: the timestamp columns have no DEFAULT CURRENT_TIMESTAMP
InsertedRowNoTimestamps(tab, cols, vals, k, ts) ==
    [c \in ColumnNames(tab) |->
        IF c \in Range(cols) THEN vals[IndexOf(cols, c)]
        ELSE IF ColumnOf(tab, c).dflt = "serial" THEN IntV(tab.nextId + k - 1)
        ELSE NullV]

\* the row INSERT stores for the k-th tuple of values: listed columns take the bound
\* value, the others their default (nextval, CURRENT_TIMESTAMP or NULL)
InsertedRow(tab, cols, vals, k, ts) ==
    [c \in ColumnNames(tab) |->
        IF c \in Range(cols) THEN vals[IndexOf(cols, c)]
        ELSE IF ColumnOf(tab, c).dflt = "serial" THEN IntV(tab.nextId + k - 1)
        ELSE IF ColumnOf(tab, c).dflt = "now" THEN TimeV(ts)
        ELSE NullV]

\* primary key and unique columns hold pairwise different values
KeysDistinct(tab, rows) ==
    \A c \in {idCol} \cup tab.unique : \A r1, r2 \in rows : r1[c] = r2[c] => r1 = r2

\* a faulty variant: id is neither a key nor drawn from a sequence that advances
SqlInsertWithoutKey(tabs, name, cols, valueRows, ts) ==
    IF name \notin DOMAIN tabs THEN Failed(tabs, "relation does not exist")
    ELSE LET tab == tabs[name]
             new == [k \in DOMAIN valueRows |-> InsertedRow(tab, cols, valueRows[k], 1, ts)]
         IN  IF \E c \in Range(cols) : c \notin ColumnNames(tab)
             THEN Failed(tabs, "column does not exist")
             ELSE IF \E k \in DOMAIN new : \E c \in ColumnNames(tab) :
                        ~TypeAccepts(ColumnOf(tab, c).type, new[k][c])
             THEN Failed(tabs, "type mismatch")
             ELSE IF \E k \in DOMAIN new : \E c \in ColumnNames(tab) :
                        ~ColumnOf(tab, c).nullable /\ new[k][c] = NullV
             THEN Failed(tabs, "null value violates not-null constraint")
             ELSE Done([tabs EXCEPT ![name] = [tab EXCEPT !.rows = @ \cup Range(new)]], new)

\* INSERT INTO "name" (cols) VALUES (valueRows[1]), (valueRows[2]), ... RETURNING *
SqlInsert(tabs, name, cols, valueRows, ts) ==
    IF name \notin DOMAIN tabs THEN Failed(tabs, "relation does not exist")
    ELSE LET tab == tabs[name]
             new == [k \in DOMAIN valueRows |-> InsertedRow(tab, cols, valueRows[k], k, ts)]
             used == IF idCol \in Range(cols) THEN 0 ELSE Len(valueRows)
         IN  IF \E c \in Range(cols) : c \notin ColumnNames(tab)
             THEN Failed(tabs, "column does not exist")
             ELSE IF \E k \in DOMAIN new : \E c \in ColumnNames(tab) :
                        ~TypeAccepts(ColumnOf(tab, c).type, new[k][c])
             THEN Failed(tabs, "type mismatch")
             ELSE IF \E k \in DOMAIN new : \E c \in ColumnNames(tab) :
                        ~ColumnOf(tab, c).nullable /\ new[k][c] = NullV
             THEN Failed(tabs, "null value violates not-null constraint")
             ELSE IF \/ ~NoDuplicates([k \in DOMAIN new |-> new[k][idCol]])
                     \/ \E c \in tab.unique : ~NoDuplicates([k \in DOMAIN new |-> new[k][c]])
                     \/ ~KeysDistinct(tab, tab.rows \cup Range(new))
             THEN Failed(tabs, "duplicate key value violates unique constraint")
             ELSE Done([tabs EXCEPT ![name] = [tab EXCEPT !.rows = @ \cup Range(new),
                                                        !.nextId = @ + used]],
                       new)

\* the row UPDATE leaves: the SET columns take the bound values; a BEFORE UPDATE
\* trigger, where the table has one, then sets updated_at
UpdatedRow(tab, r, cols, vals, ts) ==
    [c \in DOMAIN r |->
        IF tab.trigger /\ c = updatedAtCol THEN TimeV(ts)
        ELSE IF c \in Range(cols) THEN vals[IndexOf(cols, c)]
        ELSE r[c]]

\* a faulty variant: the UPDATE without its WHERE clause sets the columns in every row
SqlUpdateEveryRow(tabs, name, cols, vals, key, ts) ==
    IF name \notin DOMAIN tabs THEN Failed(tabs, "relation does not exist")
    ELSE LET tab == tabs[name]
             hit == {r \in tab.rows : r[idCol] = key}
             new(r) == UpdatedRow(tab, r, cols, vals, ts)
             rows == {new(r) : r \in tab.rows}
         IN  IF \E c \in Range(cols) : c \notin ColumnNames(tab)
             THEN Failed(tabs, "column does not exist")
             ELSE IF \E i \in DOMAIN cols : ~TypeAccepts(ColumnOf(tab, cols[i]).type, vals[i])
             THEN Failed(tabs, "type mismatch")
             ELSE IF Cardinality(rows) # Cardinality(tab.rows) \/ ~KeysDistinct(tab, rows)
             THEN Failed(tabs, "duplicate key value violates unique constraint")
             ELSE Done([tabs EXCEPT ![name] = [tab EXCEPT !.rows = rows]],
                       IF hit = {} THEN <<>> ELSE <<new(CHOOSE r \in hit : TRUE)>>)

\* UPDATE "name" SET cols = vals WHERE id = key RETURNING *
SqlUpdateById(tabs, name, cols, vals, key, ts) ==
    IF name \notin DOMAIN tabs THEN Failed(tabs, "relation does not exist")
    ELSE LET tab == tabs[name]
             hit == {r \in tab.rows : r[idCol] = key}
             new(r) == IF r \in hit THEN UpdatedRow(tab, r, cols, vals, ts) ELSE r
             rows == {new(r) : r \in tab.rows}
         IN  IF \E c \in Range(cols) : c \notin ColumnNames(tab)
             THEN Failed(tabs, "column does not exist")
             ELSE IF \E i \in DOMAIN cols : ~TypeAccepts(ColumnOf(tab, cols[i]).type, vals[i])
             THEN Failed(tabs, "type mismatch")
             ELSE IF \E i \in DOMAIN cols :
                        hit # {} /\ ~ColumnOf(tab, cols[i]).nullable /\ vals[i] = NullV
             THEN Failed(tabs, "null value violates not-null constraint")
             ELSE IF Cardinality(rows) # Cardinality(tab.rows) \/ ~KeysDistinct(tab, rows)
             THEN Failed(tabs, "duplicate key value violates unique constraint")
             ELSE Done([tabs EXCEPT ![name] = [tab EXCEPT !.rows = rows]],
                       IF hit = {} THEN <<>> ELSE <<new(CHOOSE r \in hit : TRUE)>>)

\* DELETE FROM "name" WHERE col = key
SqlDeleteWhere(tabs, name, col, key) ==
    IF name \notin DOMAIN tabs THEN Failed(tabs, "relation does not exist")
    ELSE IF col \notin ColumnNames(tabs[name]) THEN Failed(tabs, "column does not exist")
    ELSE Done([tabs EXCEPT ![name] =
                 [@ EXCEPT !.rows = {r \in @ : r[col] # key}]], <<>>)

\* a fresh primary key for a descriptor (gen_random_uuid(), Prisma's generated id)
FreshUuid(tab) ==
    LET used == {r[idCol].n : r \in tab.rows}
    IN  [t |-> "text", n |-> CHOOSE k \in 1..(Cardinality(used) + 1) : k \notin used,
         s |-> <<"u","u","i","d">>]

\* INSERT INTO "name" (id, cols) VALUES (fresh, vals)
\*   ON CONFLICT (conflictCol) DO UPDATE SET updateCols = EXCLUDED.updateCols
SqlUpsert(tabs, name, conflictCol, cols, vals, updateCols) ==
    IF name \notin DOMAIN tabs THEN Failed(tabs, "relation does not exist")
    ELSE IF conflictCol \notin ColumnNames(tabs[name]) \/ idCol \notin ColumnNames(tabs[name])
    THEN Failed(tabs, "column does not exist")
    ELSE LET tab == tabs[name]
             key == vals[IndexOf(cols, conflictCol)]
             hit == {r \in tab.rows : r[conflictCol] = key}
             upd == [i \in 1..Len(updateCols) |-> vals[IndexOf(cols, updateCols[i])]]
         IN  IF hit = {}
             THEN SqlInsert(tabs, name, <<idCol>> \o cols, <<(<<FreshUuid(tab)>> \o vals)>>, 0)
             ELSE SqlUpdateById(tabs, name, updateCols, upd, (CHOOSE r \in hit : TRUE)[idCol], 0)

\* SELECT * FROM "name" WHERE col = key
SqlSelectWhere(tabs, name, col, key) ==
    IF name \notin DOMAIN tabs THEN Failed(tabs, "relation does not exist")
    ELSE IF col \notin ColumnNames(tabs[name]) THEN Failed(tabs, "column does not exist")
    ELSE LET hit == {r \in tabs[name].rows : r[col] = key}
         IN  Done(tabs, IF hit = {} THEN <<>> ELSE <<CHOOSE r \in hit : TRUE>>)

\* the rows of a set in ascending order of id
RECURSIVE OrderById(_)
OrderById(rows) ==
    IF rows = {} THEN <<>>
    ELSE LET first == CHOOSE r \in rows : \A q \in rows : r[idCol].n <= q[idCol].n
         IN  <<first>> \o OrderById(rows \ {first})

Min(a, b) == IF a <= b THEN a ELSE b

\* a faulty variant: the page is cut in storage order, without ORDER BY id
SqlSelectPageUnordered(tabs, name, limit, offset) ==
    IF name \notin DOMAIN tabs THEN Failed(tabs, "relation does not exist")
    ELSE IF idCol \notin ColumnNames(tabs[name]) THEN Failed(tabs, "column does not exist")
    ELSE IF limit.t # "int" \/ offset.t # "int" THEN Failed(tabs, "column \"nan\" does not exist")
    ELSE IF limit.n < 0 THEN Failed(tabs, "LIMIT must not be negative")
    ELSE IF offset.n < 0 THEN Failed(tabs, "OFFSET must not be negative")
    ELSE LET all == OrderById(tabs[name].rows)
             heap == [i \in DOMAIN all |-> all[Len(all) + 1 - i]]
         IN  Done(tabs, SubSeq(heap, offset.n + 1, Min(Len(heap), offset.n + limit.n)))

\* SELECT * FROM "name" ORDER BY id LIMIT limit OFFSET offset
SqlSelectPage(tabs, name, limit, offset) ==
    IF name \notin DOMAIN tabs THEN Failed(tabs, "relation does not exist")
    ELSE IF idCol \notin ColumnNames(tabs[name]) THEN Failed(tabs, "column does not exist")
    ELSE IF limit.t # "int" \/ offset.t # "int" THEN Failed(tabs, "column \"nan\" does not exist")
    ELSE IF limit.n < 0 THEN Failed(tabs, "LIMIT must not be negative")
    ELSE IF offset.n < 0 THEN Failed(tabs, "OFFSET must not be negative")
    ELSE LET all == OrderById(tabs[name].rows)
         IN  Done(tabs, SubSeq(all, offset.n + 1, Min(Len(all), offset.n + limit.n)))

\* SELECT COUNT(*) as count FROM "name": the count, where the table exists
SqlCount(tabs, name) ==
    IF name \notin DOMAIN tabs THEN Failed(tabs, "relation does not exist")
    ELSE Done(tabs, <<Cardinality(tabs[name].rows)>>)

(* --------------------------- the program state ------------------------ *)
VARIABLES
    tables,     \* the public schema: table name -> columns, rows, serial, keys
    now,        \* the storage engine's clock (CURRENT_TIMESTAMP)
    reqs,       \* per handler in flight: where it is and what it carries
    statement,  \* the statement the latest step issued to storage ("none": it issued none)
    response    \* the response the latest step sent ("none": it sent none)

vars == <<tables, now, reqs, statement, response>>

\* the columns of the context-descriptor table, as the upsert statement names them
TableContextColumns ==
    << Column(idCol, "TEXT", FALSE, "none"),
       Column(tableNameCol, "TEXT", FALSE, "none"),
       Column(descriptionCol, "TEXT", FALSE, "none"),
       Column(embeddingCol, "vector", TRUE, "none") >>

TableContextTable ==
    [columns |-> TableContextColumns, rows |-> {}, nextId |-> 1,
     unique |-> {tableNameCol}, trigger |-> FALSE]

PrismaMigrationsTable ==
    [columns |-> <<Column(idCol, "TEXT", FALSE, "none")>>, rows |-> {}, nextId |-> 1,
     unique |-> {}, trigger |-> FALSE]

\* a statement: its kind, the identifiers interpolated into it, the numbers
\* interpolated into it (the LIMIT and OFFSET of a page query) and, for a multi-row
\* INSERT, the placeholders of its VALUES tuples and the values bound to them
NoStatement ==
    [kind |-> "none", identifiers |-> <<>>, literals |-> <<>>,
     placeholders |-> <<>>, values |-> <<>>]
Statement(kind, identifiers) ==
    [kind |-> kind, identifiers |-> identifiers, literals |-> <<>>,
     placeholders |-> <<>>, values |-> <<>>]

\* a response: status, the error text and validation details of a failure, the rows of a success
\* (pagination: empty, or the one {limit, offset, total} object of a page of rows)
NoResponse ==
    [op |-> "none", tableName |-> <<>>, status |-> 0, error |-> "", details |-> {},
     rows |-> <<>>, pagination |-> <<>>]
Respond(op, name, status, error, rows) ==
    [op |-> op, tableName |-> name, status |-> status, error |-> error, details |-> {},
     rows |-> rows, pagination |-> <<>>]
\* res.json / res.status(500).json of a handler whose last statement gave res
Answer(op, name, res) ==
    Respond(op, name, IF res.ok THEN 200 ELSE 500, res.err, res.rows)
\* res.status(400).json({error: 'Validation error', details: error.errors})
ValidationError(op, name, issues) ==
    [op |-> op, tableName |-> name, status |-> 400, error |-> "Validation error",
     details |-> issues, rows |-> <<>>, pagination |-> <<>>]

Idle == [pc |-> "idle", tableName |-> <<>>, description |-> <<>>,
         data |-> <<>>, limitNum |-> 0, offsetNum |-> 0]

Init ==
    /\ tables = [n \in ReservedNames |->
                    IF n = TableContextName THEN TableContextTable ELSE PrismaMigrationsTable]
    /\ now = 0
    /\ reqs = [p \in Procs |-> Idle]
    /\ statement = NoStatement
    /\ response = NoResponse

(* ------------------------------ requests ------------------------------ *)
\* table names requests carry: a user table, the reserved names, a malformed name
TableNameInputs == {<<"t">>, TableContextName, PrismaMigrationsName, <<"1","t">>}

\* a column of a create-table request body (nullable: "true", "false" or "absent")
ColumnInput(name, type, nullable) == [name |-> name, type |-> type, nullable |-> nullable]

\* column lists create-table requests carry
ColumnsInputs ==
    { << ColumnInput(<<"a">>, "INTEGER", "false") >>,
      << ColumnInput(<<"a">>, "INTEGER", "absent"), ColumnInput(<<"b">>, "TEXT", "true") >>,
      << ColumnInput(<<"a","-","b">>, "TEXT", "absent") >>,
      << ColumnInput(<<"a">>, "text", "absent") >>,
      << >> }

\* column names and type tokens alter requests carry
ColumnNameInputs == {<<"b">>, <<"a","-","b">>}
ColumnTypeInputs == {"INTEGER", "SERIAL"}

(* --------------------------- Schema Manager --------------------------- *)
\* a faulty variant: the type of a column is any string
columnSchemaAnyType(column) ==
    IF tableNameRegex(column.name) THEN {} ELSE {"name"}

\* columnSchema: the issues zod raises on one column of the request
columnSchema(column) ==
    (IF tableNameRegex(column.name) THEN {} ELSE {"name"})
    \cup (IF column.type \in allowedTypes THEN {} ELSE {"type"})

\* createTableSchema: the issues zod raises on the request body (none: it parses)
createTableSchema(tableName, columns) ==
    (IF tableNameRegex(tableName) THEN {} ELSE {"tableName"})
    \cup (IF Len(columns) >= 1 THEN {} ELSE {"columns"})
    \cup UNION {columnSchema(columns[i]) : i \in DOMAIN columns}

\* the parsed columns as the CREATE TABLE statement declares them
columnDefinitions(columns) ==
    [i \in DOMAIN columns |->
        Column(columns[i].name, columns[i].type, columns[i].nullable # "false", "none")]

\* router.post('/create')
CreateTable(tableName, columns) ==
    /\ UNCHANGED <<now, reqs>>
    /\ IF createTableSchema(tableName, columns) # {}
       THEN /\ response' = ValidationError("createTable", tableName,
                                           createTableSchema(tableName, columns))
            /\ statement' = NoStatement
            /\ UNCHANGED tables
       ELSE LET res == SqlCreateTableIfNotExists(tables, tableName, columnDefinitions(columns))
            IN  /\ statement' = Statement("CREATE TABLE",
                        <<tableName>> \o [i \in DOMAIN columns |-> columns[i].name])
                /\ tables' = res.tables
                /\ response' = Answer("createTable", tableName, res)

\* router.post('/alter')
AlterTable(tableName, columnName, columnType) ==
    /\ UNCHANGED <<now, reqs>>
    /\ IF ~tableNameRegex(tableName) \/ ~tableNameRegex(columnName)
       THEN /\ response' = Respond("alterTable", tableName, 400,
                                   "Invalid table or column name", <<>>)
            /\ statement' = NoStatement
            /\ UNCHANGED tables
       ELSE IF columnType \notin allowedTypes
       THEN /\ response' = Respond("alterTable", tableName, 400, "Invalid column type", <<>>)
            /\ statement' = NoStatement
            /\ UNCHANGED tables
       ELSE LET res == SqlAddColumn(tables, tableName, columnName, columnType)
            IN  /\ statement' = Statement("ALTER TABLE", <<tableName, columnName>>)
                /\ tables' = res.tables
                /\ response' = Answer("alterTable", tableName, res)

\* router.delete('/:tableName'): validation and DROP TABLE
DropTable(p, tableName) ==
    /\ reqs[p].pc = "idle"
    /\ UNCHANGED now
    /\ IF ~tableNameRegex(tableName)
       THEN /\ response' = Respond("dropTable", tableName, 400, "Invalid table name", <<>>)
            /\ statement' = NoStatement
            /\ UNCHANGED <<tables, reqs>>
       ELSE /\ statement' = Statement("DROP TABLE", <<tableName>>)
            /\ tables' = SqlDropTableIfExists(tables, tableName).tables
            /\ reqs' = [reqs EXCEPT ![p] = [Idle EXCEPT !.pc = "deleteMany",
                                                        !.tableName = tableName]]
            /\ response' = NoResponse

\* a faulty variant: the response is sent without deleting the table's context
DropTableKeepingContext(p) ==
    /\ reqs[p].pc = "deleteMany"
    /\ UNCHANGED <<now, tables>>
    /\ statement' = NoStatement
    /\ response' = Respond("dropTable", reqs[p].tableName, 200, "", <<>>)
    /\ reqs' = [reqs EXCEPT ![p] = Idle]

\* router.delete('/:tableName'): prisma.tableContext.deleteMany and the response
DropTableDeleteContext(p) ==
    /\ reqs[p].pc = "deleteMany"
    /\ UNCHANGED now
    /\ LET res == SqlDeleteWhere(tables, TableContextName, tableNameCol,
                                 TextV(reqs[p].tableName))
       IN  /\ statement' = Statement("DELETE", <<TableContextName>>)
           /\ tables' = res.tables
           /\ response' = Answer("dropTable", reqs[p].tableName, res)
    /\ reqs' = [reqs EXCEPT ![p] = Idle]

\* a faulty variant: the pg_tables query without its two exclusions
ListTablesUnfiltered ==
    DOMAIN tables

\* router.get('/list'): the result of the pg_tables query
ListTables ==
    {n \in DOMAIN tables : n # TableContextName /\ n # PrismaMigrationsName}

\* information_schema.columns.data_type of a column declared with this type
DataType(type) ==
    CASE type \in {"SERIAL", "INTEGER"} -> "integer"
      [] type = "TEXT" -> "text"
      [] type = "REAL" -> "real"
      [] type = "BOOLEAN" -> "boolean"
      [] type = "TIMESTAMP" -> "timestamp without time zone"
      [] type = "VARCHAR(255)" -> "character varying"
      [] type = "JSONB" -> "jsonb"
      [] type = "UUID" -> "uuid"
      [] OTHER -> "USER-DEFINED"

\* one row of the information_schema.columns query
ColumnRow(col) ==
    [column_name |-> col.name, data_type |-> DataType(col.type),
     is_nullable |-> IF col.nullable THEN "YES" ELSE "NO"]

\* a faulty variant: only the columns the user defined are selected
SqlSelectUserColumns(tabs, name) ==
    IF name \notin DOMAIN tabs THEN Done(tabs, <<>>)
    ELSE Done(tabs, SelectSeq([i \in DOMAIN tabs[name].columns |-> ColumnRow(tabs[name].columns[i])],
                              LAMBDA r : r.column_name \notin {idCol, createdAtCol, updatedAtCol}))

\* SELECT column_name, data_type, is_nullable FROM information_schema.columns
\*   WHERE table_schema = 'public' AND table_name = 'name' ORDER BY ordinal_position
SqlSelectColumns(tabs, name) ==
    IF name \notin DOMAIN tabs THEN Done(tabs, <<>>)
    ELSE Done(tabs, [i \in DOMAIN tabs[name].columns |-> ColumnRow(tabs[name].columns[i])])

\* router.get('/:tableName/schema')
GetSchema(tableName) ==
    /\ UNCHANGED <<now, reqs, tables>>
    /\ IF ~tableNameRegex(tableName)
       THEN /\ response' = Respond("getSchema", tableName, 400, "Invalid table name", <<>>)
            /\ statement' = NoStatement
       ELSE /\ statement' = Statement("SELECT", <<>>)
            /\ response' = Answer("getSchema", tableName, SqlSelectColumns(tables, tableName))

\* loadTableData of the Data Manager: the columns it keeps of a getSchema answer
loadTableDataColumns(columns) ==
    SelectSeq(columns, LAMBDA col : col.column_name \notin {idCol, createdAtCol, updatedAtCol})

(* ---------------------------- Context Store --------------------------- *)
\* descriptions context requests carry
DescriptionInputs == {<<"A">>, <<" ","B">>, <<" ">>, <<>>}
\* table names context requests carry
ContextNameInputs == {<<"t">>, <<"1","t">>}

Whitespace == {" ", "\t", "\n"}

\* String.prototype.trim
RECURSIVE trimStart(_)
trimStart(s) == IF s # <<>> /\ Head(s) \in Whitespace THEN trimStart(Tail(s)) ELSE s
RECURSIVE trimEnd(_)
trimEnd(s) ==
    IF s # <<>> /\ s[Len(s)] \in Whitespace THEN trimEnd(SubSeq(s, 1, Len(s) - 1)) ELSE s
trim(s) == trimEnd(trimStart(s))

\* contextSchema: the issues zod raises on the request body (none: it parses)
contextSchema(tableName, description) ==
    (IF tableNameRegex(tableName) THEN {} ELSE {"tableName"})
    \cup (IF Len(description) >= 1 THEN {} ELSE {"description"})

\* tables.ts router.post('/'): validation, then the embedding call goes out
ContextSave(p, tableName, description) ==
    /\ reqs[p].pc = "idle"
    /\ UNCHANGED <<tables, now>>
    /\ statement' = NoStatement
    /\ IF contextSchema(tableName, description) # {}
       THEN /\ response' = ValidationError("contextSave", tableName,
                                           contextSchema(tableName, description))
            /\ UNCHANGED reqs
       ELSE /\ response' = NoResponse
            /\ reqs' = [reqs EXCEPT ![p] = [pc |-> "generateEmbedding",
                                            tableName |-> tableName,
                                            description |-> description]]

\* a faulty variant: the description is stored without a vector before the failure is answered
ContextSaveEmbeddingFailedPersisting(p) ==
    /\ reqs[p].pc = "generateEmbedding"
    /\ UNCHANGED now
    /\ LET res == SqlUpsert(tables, TableContextName, tableNameCol,
                            <<tableNameCol, descriptionCol, embeddingCol>>,
                            <<TextV(reqs[p].tableName), TextV(trim(reqs[p].description)),
                              NullV>>,
                            <<descriptionCol, embeddingCol>>)
       IN  /\ statement' = Statement("INSERT", <<TableContextName>>)
           /\ tables' = res.tables
    /\ response' = Respond("contextSave", reqs[p].tableName, 500, "embedding failed", <<>>)
    /\ reqs' = [reqs EXCEPT ![p] = Idle]

\* generateEmbedding throws: the handler's catch answers 500
ContextSaveEmbeddingFailed(p) ==
    /\ reqs[p].pc = "generateEmbedding"
    /\ UNCHANGED <<tables, now>>
    /\ statement' = NoStatement
    /\ response' = Respond("contextSave", reqs[p].tableName, 500, "embedding failed", <<>>)
    /\ reqs' = [reqs EXCEPT ![p] = Idle]

\* generateEmbedding returns; INSERT ... ON CONFLICT ("tableName") DO UPDATE
ContextSaveUpsert(p) ==
    /\ reqs[p].pc = "generateEmbedding"
    /\ UNCHANGED now
    /\ LET embedding == Embed(trim(reqs[p].description))
           res == SqlUpsert(tables, TableContextName, tableNameCol,
                            <<tableNameCol, descriptionCol, embeddingCol>>,
                            <<TextV(reqs[p].tableName), TextV(trim(reqs[p].description)),
                              embedding>>,
                            <<descriptionCol, embeddingCol>>)
       IN  /\ statement' = Statement("INSERT", <<TableContextName>>)
           /\ tables' = res.tables
           /\ IF res.ok
              THEN /\ response' = NoResponse
                   /\ reqs' = [reqs EXCEPT ![p].pc = "findUnique"]
              ELSE /\ response' = Answer("contextSave", reqs[p].tableName, res)
                   /\ reqs' = [reqs EXCEPT ![p] = Idle]

\* prisma.tableContext.findUnique and the response
ContextSaveFetch(p) ==
    /\ reqs[p].pc = "findUnique"
    /\ UNCHANGED <<tables, now>>
    /\ LET res == SqlSelectWhere(tables, TableContextName, tableNameCol,
                                 TextV(reqs[p].tableName))
       IN  /\ statement' = Statement("SELECT", <<TableContextName>>)
           /\ response' = Answer("contextSave", reqs[p].tableName, res)
    /\ reqs' = [reqs EXCEPT ![p] = Idle]

\* context.ts router.post('/'): prisma.tableContext.upsert of the description alone
ContextUpsert(tableName, description) ==
    /\ UNCHANGED <<now, reqs>>
    /\ IF contextSchema(tableName, description) # {}
       THEN /\ response' = ValidationError("contextUpsert", tableName,
                                           contextSchema(tableName, description))
            /\ statement' = NoStatement
            /\ UNCHANGED tables
       ELSE LET res == SqlUpsert(tables, TableContextName, tableNameCol,
                                 <<tableNameCol, descriptionCol>>,
                                 <<TextV(tableName), TextV(description)>>,
                                 <<descriptionCol>>)
                got == SqlSelectWhere(res.tables, TableContextName, tableNameCol,
                                      TextV(tableName))
            IN  /\ statement' = Statement("INSERT", <<TableContextName>>)
                /\ tables' = res.tables
                /\ response' = IF res.ok THEN Answer("contextUpsert", tableName, got)
                                ELSE Answer("contextUpsert", tableName, res)

\* router.delete('/:tableName') of the context routers: prisma.tableContext.delete
ContextDelete(tableName) ==
    /\ UNCHANGED <<now, reqs>>
    /\ IF ~tableNameRegex(tableName)
       THEN /\ response' = Respond("contextDelete", tableName, 400, "Invalid table name", <<>>)
            /\ statement' = NoStatement
            /\ UNCHANGED tables
       ELSE LET got == SqlSelectWhere(tables, TableContextName, tableNameCol,
                                      TextV(tableName))
                res == SqlDeleteWhere(tables, TableContextName, tableNameCol,
                                      TextV(tableName))
            IN  /\ statement' = Statement("DELETE", <<TableContextName>>)
                /\ IF got.ok /\ got.rows # <<>> /\ res.ok
                   THEN /\ tables' = res.tables
                        /\ response' = Respond("contextDelete", tableName, 200, "", <<>>)
                   ELSE /\ UNCHANGED tables
                        /\ response' = Respond("contextDelete", tableName, 500,
                                               IF ~got.ok THEN got.err
                                               ELSE "Record to delete does not exist", <<>>)

\* the descriptors stored: the rows of the context-descriptor table
Descriptors ==
    IF TableContextName \in DOMAIN tables /\
       {tableNameCol, descriptionCol, embeddingCol} \subseteq ColumnNames(tables[TableContextName])
    THEN tables[TableContextName].rows ELSE {}

\* router.get('/:tableName') of the context routers: the descriptor, if any
ContextGet(tableName) == {d \in Descriptors : d[tableNameCol] = TextV(tableName)}

(* ----------------------------- CRUD Engine --------------------------- *)
\* a JSON object: its entries in insertion order, keys pairwise different
Entry(k, v) == [k |-> k, v |-> v]
\* Object.keys / Object.values
ObjectKeys(obj) == [i \in DOMAIN obj |-> obj[i].k]
ObjectValues(obj) == [i \in DOMAIN obj |-> obj[i].v]

\* row objects insert and update requests carry
DataInputs ==
    { << Entry(<<"a">>, IntV(1)) >>,
      << Entry(<<"a">>, IntV(2)), Entry(<<"b">>, TextV(<<"x">>)) >>,
      << Entry(<<"a","-","b">>, IntV(1)) >>,
      << >> }

\* row lists bulk-insert requests carry
BulkInputs ==
    { << <<Entry(<<"a">>, IntV(1))>>, <<Entry(<<"b">>, TextV(<<"x">>))>> >>,
      << <<Entry(<<"a">>, IntV(1))>>, <<Entry(<<"a","-","b">>, IntV(2))>> >> }

\* row objects that name engine-owned columns among their keys
EngineKeyInputs ==
    { << Entry(<<"a">>, IntV(1)), Entry(idCol, IntV(2)) >>,
      << Entry(<<"a">>, IntV(1)), Entry(createdAtCol, NullV) >>,
      << Entry(updatedAtCol, NullV) >>,
      << Entry(idCol, IntV(2)) >> }

\* the :id path segments update and delete requests carry
IdInputs == {<<"1">>, <<"2">>, <<"7">>, <<"x">>}

DigitChars == <<"0","1","2","3","4","5","6","7","8","9">>
DigitValue(c) == (CHOOSE i \in DOMAIN DigitChars : DigitChars[i] = c) - 1
NaN == [t |-> "nan", n |-> 0, s |-> <<>>]

\* the digits parseInt reads, as a number, most significant first
RECURSIVE DigitsValue(_, _)
DigitsValue(s, acc) ==
    IF s # <<>> /\ Head(s) \in Digit
    THEN DigitsValue(Tail(s), 10 * acc + DigitValue(Head(s)))
    ELSE acc

\* parseInt(s, 10): leading whitespace, a sign, then digits up to the first other character
parseInt(s) ==
    LET t == trimStart(s)
        signed == t # <<>> /\ Head(t) \in {"-", "+"}
        digits == IF signed THEN Tail(t) ELSE t
    IN  IF digits = <<>> \/ Head(digits) \notin Digit THEN NaN
        ELSE IntV((IF signed /\ Head(t) = "-" THEN -1 ELSE 1) * DigitsValue(digits, 0))

\* room left under the model's row bound for n more rows
HasRoom(tableName, n) ==
    tableName \in DOMAIN tables =>
        /\ tables[tableName].nextId + n - 1 <= MaxRows
        /\ Cardinality(tables[tableName].rows) + n <= MaxRows

\* router.post('/add')
InsertOne(tableName, data) ==
    /\ HasRoom(tableName, 1)
    /\ UNCHANGED <<now, reqs>>
    /\ IF ~tableNameRegex(tableName)
       THEN /\ response' = ValidationError("insertOne", tableName, {"tableName"})
            /\ statement' = NoStatement
            /\ UNCHANGED tables
       ELSE IF Len(ObjectKeys(data)) = 0
       THEN /\ response' = Respond("insertOne", tableName, 400, "No data provided", <<>>)
            /\ statement' = NoStatement
            /\ UNCHANGED tables
       ELSE LET res == SqlInsert(tables, tableName, ObjectKeys(data),
                                 <<ObjectValues(data)>>, now)
            IN  /\ statement' = Statement("INSERT", <<tableName>> \o ObjectKeys(data))
                /\ tables' = res.tables
                /\ response' = Answer("insertOne", tableName, res)

\* the keys of all rows, each once, in order of first appearance (a Set's order)
RECURSIVE Distinct(_)
Distinct(s) ==
    IF s = <<>> THEN <<>>
    ELSE LET rest == Distinct(SubSeq(s, 1, Len(s) - 1))
         IN  IF s[Len(s)] \in Range(rest) THEN rest ELSE Append(rest, s[Len(s)])
RECURSIVE AllKeys(_)
AllKeys(rows) == IF rows = <<>> THEN <<>> ELSE ObjectKeys(Head(rows)) \o AllKeys(Tail(rows))
allColumns(rows) == Distinct(AllKeys(rows))

\* row[col] ?? null
ValueOrNull(obj, col) ==
    IF col \in Range(ObjectKeys(obj)) THEN obj[IndexOf(ObjectKeys(obj), col)].v ELSE NullV

\* allValues: row[col] ?? null pushed row by row, column by column
allValues(data, columns) ==
    [j \in 1..(Len(data) * Len(columns)) |->
        ValueOrNull(data[((j - 1) \div Len(columns)) + 1],
                    columns[((j - 1) % Len(columns)) + 1])]

\* a faulty variant: paramIndex starts again at 1 for every row
valueRowsRestarting(data, columns) ==
    [k \in DOMAIN data |-> [i \in DOMAIN columns |-> i]]

\* valueRows: the placeholders of each row's tuple, numbered by paramIndex++
valueRows(data, columns) ==
    [k \in DOMAIN data |-> [i \in DOMAIN columns |-> (k - 1) * Len(columns) + i]]

\* router.post('/bulk-add')
InsertMany(tableName, data) ==
    /\ HasRoom(tableName, Len(data))
    /\ UNCHANGED <<now, reqs>>
    /\ IF ~tableNameRegex(tableName) \/ Len(data) < 1
       THEN /\ response' = ValidationError("insertMany", tableName,
                                (IF tableNameRegex(tableName) THEN {} ELSE {"tableName"})
                                \cup (IF Len(data) >= 1 THEN {} ELSE {"data"}))
            /\ statement' = NoStatement
            /\ UNCHANGED tables
       ELSE LET columns == allColumns(data)
                bound == [k \in DOMAIN data |->
                            [i \in DOMAIN columns |->
                                allValues(data, columns)[valueRows(data, columns)[k][i]]]]
                res == SqlInsert(tables, tableName, columns, bound, now)
            IN  /\ statement' = [Statement("INSERT", <<tableName>> \o columns)
                                   EXCEPT !.placeholders = valueRows(data, columns),
                                          !.values = allValues(data, columns)]
                /\ tables' = res.tables
                /\ response' = Answer("insertMany", tableName, res)

\* router.put('/:tableName/:id')
UpdateById(tableName, id, data) ==
    /\ UNCHANGED <<now, reqs>>
    /\ IF ~tableNameRegex(tableName)
       THEN /\ response' = Respond("updateById", tableName, 400, "Invalid table name", <<>>)
            /\ statement' = NoStatement
            /\ UNCHANGED tables
       ELSE IF Len(ObjectKeys(data)) = 0
       THEN /\ response' = Respond("updateById", tableName, 400, "No data provided", <<>>)
            /\ statement' = NoStatement
            /\ UNCHANGED tables
       ELSE LET res == SqlUpdateById(tables, tableName, ObjectKeys(data),
                                     ObjectValues(data), parseInt(id), now)
            IN  /\ statement' = Statement("UPDATE", <<tableName>> \o ObjectKeys(data))
                /\ tables' = res.tables
                /\ response' = Answer("updateById", tableName, res)

\* a faulty variant: a delete that matches no row is answered with not-found
DeleteByIdOrNotFound(tableName, id) ==
    /\ UNCHANGED <<now, reqs>>
    /\ IF ~tableNameRegex(tableName)
       THEN /\ response' = Respond("deleteById", tableName, 400, "Invalid table name", <<>>)
            /\ statement' = NoStatement
            /\ UNCHANGED tables
       ELSE LET res == SqlDeleteWhere(tables, tableName, idCol, parseInt(id))
            IN  /\ statement' = Statement("DELETE", <<tableName>>)
                /\ tables' = res.tables
                /\ response' = IF res.ok /\ res.tables = tables
                               THEN Respond("deleteById", tableName, 404, "Row not found", <<>>)
                               ELSE Answer("deleteById", tableName, res)

\* router.delete('/:tableName/:id')
DeleteById(tableName, id) ==
    /\ UNCHANGED <<now, reqs>>
    /\ IF ~tableNameRegex(tableName)
       THEN /\ response' = Respond("deleteById", tableName, 400, "Invalid table name", <<>>)
            /\ statement' = NoStatement
            /\ UNCHANGED tables
       ELSE LET res == SqlDeleteWhere(tables, tableName, idCol, parseInt(id))
            IN  /\ statement' = Statement("DELETE", <<tableName>>)
                /\ tables' = res.tables
                /\ response' = Answer("deleteById", tableName, res)

\* the limit and offset query parameters page requests carry: absent (<<>>) or one
\* string (a number, a negative number, text, the empty string, a number then text)
LimitInputs == {<<>>, << <<"1">> >>, << <<"x">> >>, << <<>> >>, << <<"1","x">> >>}
OffsetInputs == {<<>>, << <<"1">> >>, << <<"-","1">> >>}

\* const { limit = '100', offset = '0' } = req.query
OrDefault(param, dflt) == IF param = <<>> THEN dflt ELSE param[1]

\* router.get('/:tableName'): validation and the page query
SelectPage(p, tableName, limit, offset) ==
    /\ reqs[p].pc = "idle"
    /\ UNCHANGED <<now, tables>>
    /\ IF ~tableNameRegex(tableName)
       THEN /\ response' = Respond("selectPage", tableName, 400, "Invalid table name", <<>>)
            /\ statement' = NoStatement
            /\ UNCHANGED reqs
       ELSE LET limitNum == parseInt(OrDefault(limit, <<"1","0","0">>))
                offsetNum == parseInt(OrDefault(offset, <<"0">>))
                res == SqlSelectPage(tables, tableName, limitNum, offsetNum)
            IN  /\ statement' = [Statement("SELECT", <<tableName>>)
                                   EXCEPT !.literals = <<limitNum, offsetNum>>]
                /\ IF res.ok
                   THEN /\ reqs' = [reqs EXCEPT ![p] =
                                      [Idle EXCEPT !.pc = "count", !.tableName = tableName,
                                                   !.data = res.rows,
                                                   !.limitNum = limitNum.n,
                                                   !.offsetNum = offsetNum.n]]
                        /\ response' = NoResponse
                   ELSE /\ UNCHANGED reqs
                        /\ response' = Answer("selectPage", tableName, res)

\* a faulty variant: the total reported is the number of rows of the page
SelectPageCountOfPage(p) ==
    /\ reqs[p].pc = "count"
    /\ UNCHANGED <<now, tables>>
    /\ LET res == SqlCount(tables, reqs[p].tableName)
       IN  /\ statement' = Statement("SELECT", <<reqs[p].tableName>>)
           /\ response' =
                 IF res.ok
                 THEN [Respond("selectPage", reqs[p].tableName, 200, "", reqs[p].data)
                         EXCEPT !.pagination = << [limit |-> reqs[p].limitNum,
                                                   offset |-> reqs[p].offsetNum,
                                                   total |-> Len(reqs[p].data)] >>]
                 ELSE Answer("selectPage", reqs[p].tableName, res)
    /\ reqs' = [reqs EXCEPT ![p] = Idle]

\* router.get('/:tableName'): the count query and the response
SelectPageCount(p) ==
    /\ reqs[p].pc = "count"
    /\ UNCHANGED <<now, tables>>
    /\ LET res == SqlCount(tables, reqs[p].tableName)
       IN  /\ statement' = Statement("SELECT", <<reqs[p].tableName>>)
           /\ response' =
                 IF res.ok
                 THEN [Respond("selectPage", reqs[p].tableName, 200, "", reqs[p].data)
                         EXCEPT !.pagination = << [limit |-> reqs[p].limitNum,
                                                   offset |-> reqs[p].offsetNum,
                                                   total |-> res.rows[1]] >>]
                 ELSE Answer("selectPage", reqs[p].tableName, res)
    /\ reqs' = [reqs EXCEPT ![p] = Idle]

\* time passes at the storage engine
Tick ==
    /\ now < MaxClock
    /\ now' = now + 1
    /\ statement' = NoStatement
    /\ response' = NoResponse
    /\ UNCHANGED <<tables, reqs>>

(* -------------------------- Embedding Indexer ------------------------- *)
\* a numeric vector, as the embedding capability returns and a search is asked with
VectorV(coords) == [t |-> "vector", n |-> 0, s |-> coords]

\* embedding <-> query: the Euclidean distance, here its square (which orders alike)
Distance(u, v) ==
    (u.s[1] - v.s[1]) * (u.s[1] - v.s[1]) + (u.s[2] - v.s[2]) * (u.s[2] - v.s[2])

\* LIMIT 3
SearchLimit == 3

\* ORDER BY embedding <-> query: does row r sort no later than row q (a row without
\* embedding has no distance and sorts after every row that has one)
SortsNoLater(r, q, query) ==
    \/ q[embeddingCol] = NullV
    \/ /\ r[embeddingCol] # NullV
       /\ Distance(r[embeddingCol], query) <= Distance(q[embeddingCol], query)

\* the orders ORDER BY embedding <-> query may give the rows (rows at equal distance
\* come in any order)
NearestOrders(rows, query) ==
    {f \in [1..Cardinality(rows) -> rows] :
        /\ \A i, j \in DOMAIN f : f[i] = f[j] => i = j
        /\ \A i, j \in DOMAIN f : i < j => SortsNoLater(f[i], f[j], query)}

\* SELECT tableName, description: the two columns of a row
Projected(r) == [c \in {tableNameCol, descriptionCol} |-> r[c]]

\* a faulty variant: the rows come in storage order, the search has no ORDER BY
SqlSelectAny(tabs, query) ==
    LET rows == tabs[TableContextName].rows
    IN  {[i \in 1..Min(Cardinality(rows), SearchLimit) |-> Projected(f[i])] :
            f \in {g \in [1..Cardinality(rows) -> rows] :
                      \A i, j \in DOMAIN g : g[i] = g[j] => i = j}}

\* SELECT tableName, description FROM "TableContext"
\*   ORDER BY embedding <-> 'query' LIMIT 3: the results the statement may give
SqlSelectNearest(tabs, query) ==
    LET rows == tabs[TableContextName].rows
    IN  {[i \in 1..Min(Cardinality(rows), SearchLimit) |-> Projected(f[i])] :
            f \in NearestOrders(rows, query)}

\* vectors searches are asked with, and embeddings descriptors are stored with (none,
\* for a descriptor saved without one)
QueryInputs == {VectorV(<<0, 0>>), VectorV(<<1, 1>>)}
EmbeddingInputs == {VectorV(<<0, 0>>), VectorV(<<2, 0>>), NullV}

\* the descriptor stored for the i-th candidate table
Candidate(i, embedding) ==
    [c \in {idCol, tableNameCol, descriptionCol, embeddingCol} |->
        CASE c = idCol -> [t |-> "text", n |-> i, s |-> <<"u","u","i","d">>]
          [] c = tableNameCol -> TextV(<<"t", DigitChars[i + 1]>>)
          [] c = descriptionCol -> TextV(<<"A">>)
          [] OTHER -> embedding]

\* the search for the contexts nearest to a question's embedding
Rank(queryVector) ==
    /\ UNCHANGED <<tables, now, reqs>>
    /\ statement' = Statement("SELECT", <<TableContextName>>)
    /\ \E result \in SqlSelectNearest(tables, queryVector) :
          response' = [Respond("rank", <<>>, 200, "", result)
                         EXCEPT !.details = {queryVector}]

(* --------------------------- specifications --------------------------- *)
\* table names the Context Store specification's requests carry
StoreNames == {<<"t">>, <<"1","t">>, TableContextName}
\* descriptions its context requests carry
StoreDescriptions == {<<"A">>, <<" ","B">>, <<>>}
\* column lists its create-table requests carry
StoreColumns == {<< ColumnInput(<<"a">>, "INTEGER", "false") >>}

\* Context Store and the create/drop of the tables it describes, handlers
\* interleaved statement by statement
Next ==
    \/ \E n \in StoreNames, cols \in StoreColumns : CreateTable(n, cols)
    \/ \E p \in Procs, n \in StoreNames : DropTable(p, n)
    \/ \E p \in Procs : DropTableDeleteContext(p)
    \/ \E p \in Procs, n \in ContextNameInputs, d \in StoreDescriptions : ContextSave(p, n, d)
    \/ \E p \in Procs : ContextSaveEmbeddingFailed(p)
    \/ \E p \in Procs : ContextSaveUpsert(p)
    \/ \E p \in Procs : ContextSaveFetch(p)
    \/ \E n \in ContextNameInputs, d \in StoreDescriptions : ContextUpsert(n, d)
    \/ \E n \in ContextNameInputs : ContextDelete(n)

Spec == Init /\ [][Next]_vars

\* no handler is between two of its statements
Quiet == \A p \in Procs : reqs[p].pc = "idle"

\* the same requests, each handled to its response before the next arrives
SeqNext ==
    \/ Quiet /\ \E n \in StoreNames, cols \in StoreColumns : CreateTable(n, cols)
    \/ Quiet /\ \E p \in Procs, n \in StoreNames : DropTable(p, n)
    \/ \E p \in Procs : DropTableDeleteContext(p)
    \/ Quiet /\ \E p \in Procs, n \in ContextNameInputs, d \in DescriptionInputs :
          ContextSave(p, n, d)
    \/ \E p \in Procs : ContextSaveEmbeddingFailed(p)
    \/ \E p \in Procs : ContextSaveUpsert(p)
    \/ \E p \in Procs : ContextSaveFetch(p)
    \/ Quiet /\ \E n \in ContextNameInputs, d \in DescriptionInputs : ContextUpsert(n, d)
    \/ Quiet /\ \E n \in ContextNameInputs : ContextDelete(n)

SeqSpec == Init /\ [][SeqNext]_vars

\* Schema Manager alone, over user and reserved names, one request at a time
SchemaNext ==
    \/ Quiet /\ \E n \in TableNameInputs, cols \in ColumnsInputs : CreateTable(n, cols)
    \/ Quiet /\ \E n \in TableNameInputs, c \in ColumnNameInputs, ty \in ColumnTypeInputs :
          AlterTable(n, c, ty)
    \/ Quiet /\ \E p \in Procs, n \in TableNameInputs : DropTable(p, n)
    \/ \E p \in Procs : DropTableDeleteContext(p)
    \/ Quiet /\ \E n \in TableNameInputs : GetSchema(n)

SchemaSpec == Init /\ [][SchemaNext]_vars

\* CRUD Engine over a user table, one request at a time
DataNames == {<<"t">>, <<"1","t">>}
DataNext ==
    \/ \E n \in DataNames, cols \in ColumnsInputs : CreateTable(n, cols)
    \/ \E n \in DataNames, c \in ColumnNameInputs, ty \in ColumnTypeInputs :
          AlterTable(n, c, ty)
    \/ \E n \in DataNames, d \in DataInputs : InsertOne(n, d)
    \/ \E n \in DataNames, d \in BulkInputs : InsertMany(n, d)
    \/ \E n \in DataNames, id \in IdInputs, d \in DataInputs : UpdateById(n, id, d)
    \/ \E n \in DataNames, id \in IdInputs : DeleteById(n, id)
    \/ Tick

DataSpec == Init /\ [][DataNext]_vars

\* column lists the create-table requests of the query specification carry
QueryColumns ==
    { << ColumnInput(<<"a">>, "INTEGER", "false") >>,
      << ColumnInput(<<"a">>, "INTEGER", "absent"), ColumnInput(<<"b">>, "TEXT", "true") >> }

\* Schema Manager and CRUD Engine reads beside the writes they observe, over a
\* user table, one request at a time
QueryNext ==
    \/ Quiet /\ \E n \in DataNames, cols \in QueryColumns : CreateTable(n, cols)
    \/ Quiet /\ \E n \in DataNames, c \in ColumnNameInputs, ty \in ColumnTypeInputs :
          AlterTable(n, c, ty)
    \/ Quiet /\ \E n \in DataNames, d \in DataInputs : InsertOne(n, d)
    \/ Quiet /\ \E n \in DataNames, id \in IdInputs, d \in DataInputs : UpdateById(n, id, d)
    \/ Quiet /\ \E n \in DataNames, id \in IdInputs : DeleteById(n, id)
    \/ Quiet /\ \E n \in DataNames : GetSchema(n)
    \/ Quiet /\ \E p \in Procs, n \in DataNames, l \in LimitInputs, o \in OffsetInputs :
          SelectPage(p, n, l, o)
    \/ \E p \in Procs : SelectPageCount(p)

QuerySpec == Init /\ [][QueryNext]_vars

(* ---------------------------- Data Manager UI ------------------------- *)
\* the component's tableData[tableName].rows is the data of the user's process, whose
\* position is "grid" once loadTableData has set it
User == CHOOSE p \in Procs : TRUE

\* the ids above which handleSaveChanges takes a row's id for a temporary one: 10^12
\* milliseconds, written in seconds to stay within the integers of the model checker
\* (the ids of stored rows stay far below either number)
TempIdThreshold == 1000000000
\* Date.now(): the time since the epoch, above the threshold at any present time
DateNow(ts) == TempIdThreshold + 1 + ts

\* mapDbTypeToColumnType
mapDbTypeToColumnType(dbType) ==
    CASE dbType = "integer" -> "INTEGER"
      [] dbType = "real" -> "REAL"
      [] dbType = "boolean" -> "BOOLEAN"
      [] dbType = "timestamp without time zone" -> "TIMESTAMP"
      [] dbType = "jsonb" -> "JSONB"
      [] OTHER -> "TEXT"

\* the JSON object a stored row is sent as: its columns in ordinal order
RowObject(tab, r) ==
    [i \in DOMAIN tab.columns |-> Entry(tab.columns[i].name, r[tab.columns[i].name])]

\* loadTableData: the columns of the schema answer without the engine-owned ones,
\* with the types the grid gives them
GridColumns(tabs, name) ==
    LET kept == loadTableDataColumns(SqlSelectColumns(tabs, name).rows)
    IN  [i \in DOMAIN kept |-> [name |-> kept[i].column_name,
                                type |-> mapDbTypeToColumnType(kept[i].data_type)]]

\* loadTableData: the rows of GET /api/data/:tableName with its default limit and offset
GridRows(tabs, name) ==
    LET page == SqlSelectPage(tabs, name, parseInt(<<"1","0","0">>), parseInt(<<"0">>))
    IN  [i \in DOMAIN page.rows |-> RowObject(tabs[name], page.rows[i])]

\* loadTableData of a listed table, as the mount effect runs it
loadTableData(p, tableName) ==
    /\ reqs[p].pc = "idle"
    /\ tableName \in ListTables
    /\ UNCHANGED <<now, tables>>
    /\ statement' = Statement("SELECT", <<tableName>>)
    /\ response' = NoResponse
    /\ reqs' = [reqs EXCEPT ![p] = [Idle EXCEPT !.pc = "grid", !.tableName = tableName,
                                                !.data = GridRows(tables, tableName)]]

\* handleAddRow: a row with a temporary id and a zero or empty value in every column
handleAddRow(p) ==
    /\ reqs[p].pc = "grid"
    /\ Len(reqs[p].data) < MaxRows
    /\ UNCHANGED <<now, tables>>
    /\ statement' = NoStatement
    /\ response' = NoResponse
    /\ LET columns == GridColumns(tables, reqs[p].tableName)
           newRow == <<Entry(idCol, IntV(DateNow(now)))>>
                        \o [i \in DOMAIN columns |->
                              Entry(columns[i].name,
                                    IF columns[i].type \in {"INTEGER", "REAL"}
                                    THEN IntV(0) ELSE TextV(<<>>))]
       IN  reqs' = [reqs EXCEPT ![p].data = Append(@, newRow)]

\* parseFloat(value) || 0 over strings of digits, where parseFloat reads what parseInt reads
parseFloatOrZero(value) == IF parseInt(value) = NaN THEN IntV(0) ELSE parseInt(value)

\* handleUpdateCell: the cell takes the number read from the input in a numeric
\* column and the input itself in any other
handleUpdateCell(p, rowIndex, columnName, value) ==
    /\ reqs[p].pc = "grid"
    /\ rowIndex \in DOMAIN reqs[p].data
    /\ UNCHANGED <<now, tables>>
    /\ statement' = NoStatement
    /\ response' = NoResponse
    /\ LET columns == GridColumns(tables, reqs[p].tableName)
           numeric == \E i \in DOMAIN columns :
                         /\ columns[i].name = columnName
                         /\ columns[i].type \in {"INTEGER", "REAL"}
           cell == IF numeric THEN parseFloatOrZero(value) ELSE TextV(value)
           row == reqs[p].data[rowIndex]
           updated == IF columnName \in Range(ObjectKeys(row))
                      THEN [j \in DOMAIN row |->
                              IF row[j].k = columnName THEN Entry(columnName, cell) ELSE row[j]]
                      ELSE Append(row, Entry(columnName, cell))
       IN  /\ columnName \in {columns[i].name : i \in DOMAIN columns}
           /\ reqs' = [reqs EXCEPT ![p].data[rowIndex] = updated]

\* handleDeleteRow: the row leaves the grid
handleDeleteRow(p, rowIndex) ==
    /\ reqs[p].pc = "grid"
    /\ rowIndex \in DOMAIN reqs[p].data
    /\ UNCHANGED <<now, tables>>
    /\ statement' = NoStatement
    /\ response' = NoResponse
    /\ reqs' = [reqs EXCEPT ![p].data =
                   [j \in 1..(Len(@) - 1) |-> IF j < rowIndex THEN @[j] ELSE @[j + 1]]]

\* const { id, created_at, updated_at, ...rowData } = row
rowDataOf(row) == SelectSeq(row, LAMBDA e : e.k \notin {idCol, createdAtCol, updatedAtCol})
IsTemporary(id) == id.t = "int" /\ id.n > TempIdThreshold

\* the tables POST /api/data/add leaves
AddData(tabs, tableName, data, ts) ==
    IF ~tableNameRegex(tableName) \/ Len(ObjectKeys(data)) = 0 THEN tabs
    ELSE SqlInsert(tabs, tableName, ObjectKeys(data), <<ObjectValues(data)>>, ts).tables

\* the tables PUT /api/data/:tableName/:id leaves, the id written as a number
UpdateData(tabs, tableName, id, data, ts) ==
    IF ~tableNameRegex(tableName) \/ Len(ObjectKeys(data)) = 0 THEN tabs
    ELSE SqlUpdateById(tabs, tableName, ObjectKeys(data), ObjectValues(data), id, ts).tables

\* the loop of handleSaveChanges: an insert for each row with a temporary id, an
\* update for each other row with an id
RECURSIVE SaveRows(_, _, _, _)
SaveRows(tabs, tableName, rows, ts) ==
    IF rows = <<>> THEN tabs
    ELSE LET row == Head(rows)
             id == ValueOrNull(row, idCol)
             saved == IF IsTemporary(id) THEN AddData(tabs, tableName, rowDataOf(row), ts)
                      ELSE IF id # NullV /\ id # IntV(0)
                      THEN UpdateData(tabs, tableName, id, rowDataOf(row), ts)
                      ELSE tabs
         IN  SaveRows(saved, tableName, Tail(rows), ts)

\* the rows of the grid that handleSaveChanges inserts
TemporaryRows(rows) == SelectSeq(rows, LAMBDA row : IsTemporary(ValueOrNull(row, idCol)))

\* handleSaveChanges: the loop, the reload of the grid and the toast; fetch rejects
\* on a network failure only, so every answer of the server lets the loop go on
handleSaveChanges(p) ==
    /\ reqs[p].pc = "grid"
    /\ HasRoom(reqs[p].tableName, Len(TemporaryRows(reqs[p].data)))
    /\ UNCHANGED now
    /\ LET n == reqs[p].tableName
           saved == SaveRows(tables, n, reqs[p].data, now)
       IN  /\ tables' = saved
           /\ statement' = Statement("SELECT", <<n>>)
           /\ reqs' = [reqs EXCEPT ![p].data = GridRows(saved, n)]
           /\ response' = Respond("handleSaveChanges", n, 200, "", GridRows(saved, n))

\* the values typed into a cell
CellInputs == {<<"2">>, <<"x">>}

\* the Data Manager of one user over a table it created
UiNext ==
    \/ \E cols \in QueryColumns : CreateTable(<<"t">>, cols)
    \/ loadTableData(User, <<"t">>)
    \/ handleAddRow(User)
    \/ \E i \in 1..MaxRows, c \in ColumnNameInputs, v \in CellInputs :
          handleUpdateCell(User, i, c, v)
    \/ \E i \in 1..MaxRows : handleDeleteRow(User, i)
    \/ handleSaveChanges(User)

UiSpec == Init /\ [][UiNext]_vars

\* page requests of a user table beside the inserts and deletes that run between
\* their two queries
PageNext ==
    \/ \E cols \in QueryColumns : CreateTable(<<"t">>, cols)
    \/ InsertOne(<<"t">>, <<Entry(<<"a">>, IntV(1))>>)
    \/ \E id \in {<<"1">>, <<"2">>} : DeleteById(<<"t">>, id)
    \/ \E p \in Procs, l \in {<<>>, << <<"1">> >>}, o \in {<<>>, << <<"1">> >>} :
          SelectPage(p, <<"t">>, l, o)
    \/ \E p \in Procs : SelectPageCount(p)

PageSpec == Init /\ [][PageNext]_vars

\* CRUD Engine writes whose row objects may name engine-owned columns
OwnedNext ==
    \/ \E cols \in QueryColumns : CreateTable(<<"t">>, cols)
    \/ \E d \in {<<Entry(<<"a">>, IntV(1))>>} \cup EngineKeyInputs : InsertOne(<<"t">>, d)
    \/ \E d \in BulkInputs : InsertMany(<<"t">>, d)
    \/ \E id \in {<<"1">>, <<"2">>}, d \in EngineKeyInputs : UpdateById(<<"t">>, id, d)

OwnedSpec == Init /\ [][OwnedNext]_vars

\* the context store holding up to MaxCandidates descriptors, searched
RankInit ==
    /\ \E count \in 0..MaxCandidates : \E embeddings \in [1..count -> EmbeddingInputs] :
          tables = [n \in ReservedNames |->
                      IF n = TableContextName
                      THEN [TableContextTable EXCEPT
                              !.rows = {Candidate(i, embeddings[i]) : i \in 1..count}]
                      ELSE PrismaMigrationsTable]
    /\ now = 0
    /\ reqs = [p \in Procs |-> Idle]
    /\ statement = NoStatement
    /\ response = NoResponse

RankNext == \E q \in QueryInputs : Rank(q)

RankSpec == RankInit /\ [][RankNext]_vars

(* ------------------------------ properties ---------------------------- *)
\* C1: every table name and column name in a statement issued to storage matches
\* ^[A-Za-z_][A-Za-z0-9_]*$ (a request with another name is rejected before any statement)
C1_IdentifiersMatchGrammar ==
    \A i \in DOMAIN statement.identifiers : tableNameRegex(statement.identifiers[i])

\* C2: each stored descriptor's embedding is Embed of the description stored with it
C2_EmbeddingOfDescription ==
    \A d \in Descriptors : d[embeddingCol] = Embed(d[descriptionCol].s)

\* C3: a save whose embedding call fails answers with a failure and leaves the
\* tables, the descriptors among them, as they were
C3_EmbeddingFailureLeavesStore ==
    [][(response'.op = "contextSave" /\ response'.error = "embedding failed")
         => /\ response'.status = 500
            /\ Descriptors' = Descriptors
            /\ tables' = tables]_vars

\* a save failed on its embedding call while a descriptor for the table was stored
C3_Witness ==
    /\ response.op = "contextSave"
    /\ response.error = "embedding failed"
    /\ ContextGet(response.tableName) # {}

\* the one descriptor a successful save of (name, description) leaves for name
SavedDescriptor(name, description, ds) ==
    /\ Cardinality(ds) = 1
    /\ \A d \in ds :
          /\ d[tableNameCol] = TextV(name)
          /\ d[descriptionCol] \in {TextV(description), TextV(trim(description))}
          /\ d[embeddingCol] = Embed(d[descriptionCol].s)

\* C4: at most one descriptor per table name in every state, and a successful save
\* leaves the single descriptor with the saved description and its embedding
C4_UpsertKeepsOneFreshDescriptor ==
    /\ [](\A d1, d2 \in Descriptors : d1[tableNameCol] = d2[tableNameCol] => d1 = d2)
    /\ [][/\ \A n \in ContextNameInputs, d \in DescriptionInputs :
               (ContextUpsert(n, d) /\ response'.status = 200)
                  => SavedDescriptor(n, d, ContextGet(n)')
          /\ \A p \in Procs :
               (ContextSaveUpsert(p) /\ reqs'[p].pc = "findUnique")
                  => SavedDescriptor(reqs[p].tableName, reqs[p].description,
                                     ContextGet(reqs[p].tableName)')]_vars

\* C5: once dropTable(name) has answered success, name is not listed and has no descriptor
C5_DroppedTableGone ==
    (response.op = "dropTable" /\ response.status = 200)
       => /\ response.tableName \notin ListTables
          /\ ContextGet(response.tableName) = {}
          /\ \A d \in Descriptors : d[tableNameCol].s # response.tableName

\* dropTable of the user table has answered success
C5_Witness ==
    /\ response.op = "dropTable"
    /\ response.status = 200
    /\ response.tableName = <<"t">>

\* C6: every stored descriptor names a materialized user table
C6_DescriptorsReferToTables ==
    \A d \in Descriptors : d[tableNameCol].s \in ListTables

\* C7: the row a successful updateById returns carries an update timestamp not
\* earlier than the update
C7_UpdateRefreshesTimestamp ==
    (response.op = "updateById" /\ response.status = 200 /\ response.rows # <<>>)
       => /\ response.rows[1][updatedAtCol].t = "timestamp"
          /\ response.rows[1][updatedAtCol].n >= now

\* the answer of a rejected request: a validation error, nothing issued, nothing changed
Rejected ==
    /\ response'.status = 400
    /\ statement' = NoStatement
    /\ tables' = tables

\* C8: createTable and alterTable reject a type token outside the registry with a
\* validation error, issue no DDL and leave the tables as they were
C8_UnknownTypeRejected ==
    [][/\ response'.op = "createTable" =>
            \A n \in TableNameInputs, cols \in ColumnsInputs :
               ((\E i \in DOMAIN cols : cols[i].type \notin allowedTypes) /\ CreateTable(n, cols))
                  => Rejected
       /\ response'.op = "alterTable" =>
            \A n \in TableNameInputs, c \in ColumnNameInputs, ty \in ColumnTypeInputs :
               (ty \notin allowedTypes /\ AlterTable(n, c, ty)) => Rejected]_vars

\* createTable was rejected for a type token while a user table exists
C8_Witness ==
    /\ response.op = "createTable"
    /\ response.status = 400
    /\ "type" \in response.details
    /\ <<"t">> \in DOMAIN tables

C10_ReservedNameNotCreatable ==
    (response.op = "createTable" /\ response.tableName \in ReservedNames)
       => response.status # 200

\* C11: listTables starts empty, gains a user name exactly when createTable answers
\* success for it, loses a name exactly when DROP TABLE is issued for it, and never
\* holds a reserved name: it is the set of user tables created and not since dropped
C11_ListedAreCreatedNotDropped ==
    /\ ListTables = {}
    /\ [](ListTables \cap ReservedNames = {})
    /\ [][ListTables' =
            IF /\ response'.op = "createTable"
               /\ response'.status = 200
               /\ response'.tableName \notin ReservedNames
            THEN ListTables \cup {response'.tableName}
            ELSE IF statement'.kind = "DROP TABLE"
            THEN ListTables \ {statement'.identifiers[1]}
            ELSE ListTables]_vars

\* a user table is listed while both reserved tables are materialized beside it
C11_Witness ==
    /\ ListTables = {<<"t">>}
    /\ ReservedNames \subseteq DOMAIN tables
    /\ response.op = "createTable"

\* the statement C12 makes of getSchema: its answer for a user table holds no
\* engine-owned column and names each column's type by its registry token
C12_SchemaIsUserColumnsOnly ==
    (response.op = "getSchema" /\ response.status = 200 /\ response.tableName \in ListTables)
       => \A i \in DOMAIN response.rows :
             /\ response.rows[i].column_name \notin {idCol, createdAtCol, updatedAtCol}
             /\ response.rows[i].data_type \in allowedTypes

\* C12 (amended): getSchema answers with every column of the table in ordinal
\* position, each with the native name of its type and its nullability; for a user
\* table id, created_at and updated_at are among them, and what loadTableData keeps
\* of the answer is exactly the other columns
C12_SchemaIsEveryColumn ==
    (response.op = "getSchema" /\ response.status = 200 /\ response.tableName \in DOMAIN tables)
       => LET cols == tables[response.tableName].columns
              rows == response.rows
              kept == loadTableDataColumns(rows)
          IN  /\ Len(rows) = Len(cols)
              /\ \A i \in DOMAIN rows :
                    /\ rows[i].column_name = cols[i].name
                    /\ rows[i].data_type = DataType(cols[i].type)
                    /\ rows[i].is_nullable = "NO" <=> ~cols[i].nullable
              /\ response.tableName \in ListTables =>
                    /\ {idCol, createdAtCol, updatedAtCol}
                          \subseteq {rows[i].column_name : i \in DOMAIN rows}
                    /\ Len(kept) = Len(rows) - 3
                    /\ {kept[i].column_name : i \in DOMAIN kept}
                          = ColumnNames(tables[response.tableName])
                               \ {idCol, createdAtCol, updatedAtCol}

\* getSchema of a table created with the one column a INTEGER NOT NULL answered
\* with four columns, the second of them (a, integer, NO)
C12_Witness ==
    /\ response.op = "getSchema"
    /\ response.status = 200
    /\ response.tableName = <<"t">>
    /\ Len(response.rows) = 4
    /\ response.rows[2] = [column_name |-> <<"a">>, data_type |-> "integer",
                           is_nullable |-> "NO"]
    /\ Len(loadTableDataColumns(response.rows)) = 1

\* C13: alterTable, getSchema, insertOne, selectPage and updateById answer a request
\* that names a table not materialized with a not-found error, and change no table
C13_UnknownTableNotFound ==
    [][(/\ response'.op \in {"alterTable", "getSchema", "insertOne", "selectPage",
                              "updateById"}
        /\ statement'.kind # "none"
        /\ response'.tableName \notin DOMAIN tables)
          => /\ response'.status = 404
             /\ tables' = tables]_vars

\* does the :id path segment name a row of the table
MatchesRow(tableName, id) ==
    \E r \in tables[tableName].rows : r[idCol] = parseInt(id)

\* C14: updateById with a non-empty row object of the table's columns and an id that
\* matches no row of the existing table answers not-found (404) and leaves the rows
\* as they were
C14_UpdateMissingRowNotFound ==
    [][response'.op = "updateById" =>
          \A n \in DataNames, id \in IdInputs, d \in DataInputs :
             (/\ n \in DOMAIN tables
              /\ d # <<>>
              /\ Range(ObjectKeys(d)) \subseteq ColumnNames(tables[n])
              /\ ~MatchesRow(n, id)
              /\ UpdateById(n, id, d))
                => /\ response'.status = 404
                   /\ tables' = tables]_vars

\* C15: deleteById on an existing table answers success whether or not a row has the
\* id; with no such row the tables stay as they were, and after it no row has the id,
\* so a second deleteById of the same id is the first case again
C15_DeleteByIdIdempotent ==
    [][response'.op = "deleteById" =>
          \A n \in DataNames, id \in IdInputs :
             (n \in DOMAIN tables /\ DeleteById(n, id))
                => /\ response'.status = 200
                   /\ ~MatchesRow(n, id) => tables' = tables
                   /\ tables'[n].rows = {r \in tables[n].rows : r[idCol] # parseInt(id)}
                   /\ ~MatchesRow(n, id)']_vars

\* deleteById answered success on a table that holds every row ever inserted into it:
\* the delete matched no row
C15_Witness ==
    /\ response.op = "deleteById"
    /\ response.status = 200
    /\ response.tableName \in DOMAIN tables
    /\ tables[response.tableName].rows # {}
    /\ Cardinality(tables[response.tableName].rows) = tables[response.tableName].nextId - 1

\* C16: delete of the context of a valid table name that has no stored descriptor
\* answers success and leaves the store as it was
C16_ContextDeleteIdempotent ==
    [][response'.op = "contextDelete" =>
          \A n \in ContextNameInputs :
             (/\ tableNameRegex(n)
              /\ TableContextName \in DOMAIN tables
              /\ tables[TableContextName].columns = TableContextColumns
              /\ ContextGet(n) = {}
              /\ ContextDelete(n))
                => /\ response'.status = 200
                   /\ tables' = tables]_vars

\* C17: dropTable of a valid name that is not materialized leaves the set of tables as
\* it was and answers success: the DROP TABLE changes nothing and the deleteMany that
\* follows it succeeds without adding or removing a table
C17_DropTableIdempotent ==
    [][statement'.kind = "DROP TABLE" =>
          \A p \in Procs, n \in TableNameInputs :
             (tableNameRegex(n) /\ n \notin DOMAIN tables /\ DropTable(p, n))
                => LET res == SqlDeleteWhere(tables', TableContextName, tableNameCol, TextV(n))
                   IN  /\ tables' = tables
                       /\ res.ok
                       /\ DOMAIN res.tables = DOMAIN tables]_vars

\* the value an input row supplies for a column, null where it supplies none
Supplied(row, c) ==
    IF \E j \in DOMAIN row : row[j].k = c
    THEN (CHOOSE e \in Range(row) : e.k = c).v
    ELSE NullV

\* C18: a successful insertMany issues one INSERT over the union of the rows' column
\* names, with placeholders $1, $2, ... numbered consecutively through the rows; it
\* stores one row per input row, whose value in each of those columns is the one the
\* input row supplies, or null where it supplies none
C18_InsertManyRowPerRow ==
    [][(response'.op = "insertMany" /\ response'.status = 200) =>
          \A n \in DataNames, d \in BulkInputs :
             InsertMany(n, d) =>
                LET union == UNION {{d[k][j].k : j \in DOMAIN d[k]} : k \in DOMAIN d}
                    cols == Tail(statement'.identifiers)
                    flat == [j \in 1..(Len(d) * Len(cols)) |->
                               statement'.placeholders[((j - 1) \div Len(cols)) + 1]
                                                      [((j - 1) % Len(cols)) + 1]]
                IN  /\ statement'.kind = "INSERT"
                    /\ Range(cols) = union /\ Len(cols) = Cardinality(union)
                    /\ Len(statement'.placeholders) = Len(d)
                    /\ \A j \in DOMAIN flat : flat[j] = j
                    /\ \A k \in DOMAIN d, i \in DOMAIN cols :
                          statement'.values[statement'.placeholders[k][i]]
                             = Supplied(d[k], cols[i])
                    /\ Len(response'.rows) = Len(d)
                    /\ Cardinality(tables'[n].rows) = Cardinality(tables[n].rows) + Len(d)
                    /\ tables'[n].rows = tables[n].rows \cup Range(response'.rows)
                    /\ \A k \in DOMAIN d, c \in union :
                          response'.rows[k][c] = Supplied(d[k], c)]_vars

\* insertMany stored two rows of which one took null for a column it did not supply
C18_Witness ==
    /\ response.op = "insertMany"
    /\ response.status = 200
    /\ Len(response.rows) = 2
    /\ Len(statement.values) = 4
    /\ \E k \in DOMAIN response.rows :
          /\ response.rows[k] \in tables[response.tableName].rows
          /\ response.rows[k][<<"b">>] = NullV

RowsBefore(tableName, r) ==
    Cardinality({q \in tables[tableName].rows : q[idCol].n < r[idCol].n})

\* C20: a successful selectPage returns, in ascending order of id, the rows of the
\* table after the first offset ones and at most limit of them, with total the number
\* of rows in the whole table; an absent limit is 100 and an absent offset is 0
C20_SelectPageOrderedWindow ==
    /\ [](response.op = "selectPage" /\ response.status = 200
           => LET rows == response.rows
                  page == response.pagination[1]
                  stored == tables[response.tableName].rows
              IN  /\ \A i, j \in DOMAIN rows : i < j => rows[i][idCol].n < rows[j][idCol].n
                  /\ Len(rows) <= page.limit
                  /\ Range(rows) = {r \in stored :
                                      /\ RowsBefore(response.tableName, r) >= page.offset
                                      /\ RowsBefore(response.tableName, r)
                                            < page.offset + page.limit}
                  /\ page.total = Cardinality(stored))
    /\ [][statement'.kind = "SELECT" =>
             \A p \in Procs, n \in DataNames, l \in LimitInputs, o \in OffsetInputs :
                (SelectPage(p, n, l, o) /\ reqs'[p].pc = "count")
                   => /\ l = <<>> => reqs'[p].limitNum = 100
                      /\ o = <<>> => reqs'[p].offsetNum = 0
                      /\ l # <<>> => IntV(reqs'[p].limitNum) = parseInt(l[1])
                      /\ o # <<>> => IntV(reqs'[p].offsetNum) = parseInt(o[1])]_vars

\* selectPage with limit 1 and offset 1 returned the second of two stored rows and
\* total 2
C20_Witness ==
    /\ response.op = "selectPage"
    /\ response.status = 200
    /\ response.pagination = << [limit |-> 1, offset |-> 1, total |-> 2] >>
    /\ Len(response.rows) = 1
    /\ response.rows[1][idCol] = IntV(2)

\* C21: the limit and offset interpolated into the text of a page query are integers
\* not below zero, never a negative number and never NaN
C21_LimitOffsetNonNegative ==
    (statement.kind = "SELECT" /\ statement.literals # <<>>)
       => \A i \in DOMAIN statement.literals :
             /\ statement.literals[i].t = "int"
             /\ statement.literals[i].n >= 0

\* the stored descriptor a returned entry stands for
CandidateOf(entry) ==
    CHOOSE d \in Descriptors : d[tableNameCol] = entry[tableNameCol]

C23_DescriptionNonEmpty ==
    \A d \in Descriptors : d[descriptionCol].s # <<>>

C25_ConcurrentWritesKeepRows ==
    /\ [](\A n \in ListTables : \A r1, r2 \in tables[n].rows :
             r1[idCol] = r2[idCol] => r1 = r2)
    /\ [][/\ (response'.op \in {"insertOne", "insertMany"} /\ response'.status = 200) =>
               LET n == response'.tableName
                   rows == response'.rows
               IN  /\ Range(rows) \subseteq tables'[n].rows
                   /\ tables[n].rows \subseteq tables'[n].rows
                   /\ Range(rows) \cap tables[n].rows = {}
                   /\ \A i, j \in DOMAIN rows : rows[i][idCol] = rows[j][idCol] => i = j
                   /\ Cardinality(tables'[n].rows) = Cardinality(tables[n].rows) + Len(rows)
           /\ (response'.op = "updateById" /\ response'.tableName \in DOMAIN tables) =>
                 Cardinality(tables'[response'.tableName].rows)
                    = Cardinality(tables[response'.tableName].rows)]_vars

\* an insertOne was answered with success for the second row of a table
C25_Witness ==
    /\ response.op = "insertOne"
    /\ response.status = 200
    /\ response.rows[1][idCol] = IntV(2)
    /\ Cardinality(tables[response.tableName].rows) = 2

\* C26: a dropTable, alterTable, insertOne, insertMany, updateById or deleteById
\* request whose table name is a reserved name leaves every reserved table as it
\* was: still materialized, with the same columns and the same rows
C26_ReservedTablesUntouched ==
    [][(\/ /\ statement'.kind \in {"DROP TABLE", "ALTER TABLE"}
           /\ statement'.identifiers[1] \in ReservedNames
        \/ /\ response'.op \in {"alterTable", "insertOne", "insertMany",
                                 "updateById", "deleteById"}
           /\ response'.tableName \in ReservedNames)
          => \A r \in ReservedNames \cap DOMAIN tables :
                /\ r \in DOMAIN tables'
                /\ tables'[r] = tables[r]]_vars

\* C27: whatever keys the row objects of insertOne, insertMany and updateById
\* requests carry, every stored row of a user table has a created_at and an
\* updated_at that are not null; the rows an insert stores carry the next ids of the
\* table's sequence; and an update leaves the ids of the table's rows as they were
C27_EngineColumnsOwned ==
    /\ [](\A n \in ListTables : \A r \in tables[n].rows :
             r[createdAtCol] # NullV /\ r[updatedAtCol] # NullV)
    /\ [][/\ (response'.op \in {"insertOne", "insertMany"} /\ response'.status = 200) =>
               \A k \in DOMAIN response'.rows :
                  response'.rows[k][idCol]
                     = IntV(tables[response'.tableName].nextId + k - 1)
           /\ (response'.op = "updateById" /\ response'.tableName \in DOMAIN tables) =>
                 {r[idCol] : r \in tables'[response'.tableName].rows}
                    = {r[idCol] : r \in tables[response'.tableName].rows}]_vars

\* C28: a successful selectPage response with offset 0 never returns more rows than
\* the total it reports, and when it returns fewer rows than limit it returns as
\* many as the total, whatever inserts and deletes run beside the request
C28_PageConsistentWithTotal ==
    (response.op = "selectPage" /\ response.status = 200
        /\ response.pagination[1].offset = 0)
       => /\ Len(response.rows) <= response.pagination[1].total
          /\ Len(response.rows) < response.pagination[1].limit
                => Len(response.rows) = response.pagination[1].total

\* C28 (amended): the rows of a successful selectPage response are the rows its row
\* query read and the total is the number of rows of the table at its count query;
\* with offset 0, when the row query would still read those rows at the count
\* query, the response returns no more rows than the total and, when it returns
\* fewer than limit, as many as the total
C28_PageConsistentPerQuery ==
    [][(response'.op = "selectPage" /\ response'.status = 200) =>
          \A p \in Procs :
             (reqs[p].pc = "count" /\ reqs'[p].pc = "idle") =>
                LET n == reqs[p].tableName
                    page == response'.pagination[1]
                    again == SqlSelectPage(tables, n, IntV(page.limit), IntV(page.offset))
                IN  /\ response'.rows = reqs[p].data
                    /\ page.total = Cardinality(tables[n].rows)
                    /\ (page.offset = 0 /\ again.rows = reqs[p].data) =>
                          /\ Len(response'.rows) <= page.total
                          /\ Len(response'.rows) < page.limit
                                => Len(response'.rows) = page.total]_vars

\* a selectPage response returned the row its row query read and total 0: the row
\* was deleted before the count query
C28_Witness ==
    /\ response.op = "selectPage"
    /\ response.status = 200
    /\ response.pagination[1].offset = 0
    /\ Len(response.rows) = 1
    /\ response.pagination[1].total = 0

\* C29: an updateById request changes no table but the named one and, there, no row
\* but the one whose id is the given id; in that row every column the row object
\* names takes the value it supplies and every other column except updated_at keeps
\* its value; the response returns that row; a request that is not answered with
\* success changes nothing
C29_UpdateChangesOneRow ==
    [][response'.op = "updateById" =>
          \A n \in {response'.tableName}, id \in IdInputs, d \in DataInputs :
             (/\ statement'.kind = "UPDATE" => Tail(statement'.identifiers) = ObjectKeys(d)
              /\ UpdateById(n, id, d)) =>
                IF response'.status # 200 THEN tables' = tables
                ELSE /\ DOMAIN tables' = DOMAIN tables
                     /\ \A m \in DOMAIN tables \ {n} : tables'[m] = tables[m]
                     /\ tables'[n].columns = tables[n].columns
                     /\ Cardinality(tables'[n].rows) = Cardinality(tables[n].rows)
                     /\ \A r \in tables[n].rows :
                           IF r[idCol] # parseInt(id) THEN r \in tables'[n].rows
                           ELSE \E u \in tables'[n].rows :
                                   /\ response'.rows = <<u>>
                                   /\ \A c \in DOMAIN r :
                                         IF c \in Range(ObjectKeys(d))
                                         THEN u[c] = Supplied(d, c)
                                         ELSE c # updatedAtCol => u[c] = r[c]
                     /\ (\A r \in tables[n].rows : r[idCol] # parseInt(id))
                           => response'.rows = <<>>]_vars

\* an updateById set column a of one of two stored rows to 2 and returned that row,
\* while the other row still holds 1
C29_Witness ==
    /\ response.op = "updateById"
    /\ response.status = 200
    /\ Len(response.rows) = 1
    /\ response.rows[1][<<"a">>] = IntV(2)
    /\ \E r \in tables[response.tableName].rows :
          r[idCol] # response.rows[1][idCol] /\ r[<<"a">>] = IntV(1)

\* C30: when Save Changes completes, the rows stored in the table are the rows of
\* the grid as the user left it, one stored row for each grid row with the grid's
\* value in every user column; a stored row that is no longer in the grid is no
\* longer stored and is not among the rows the reload shows
C30_SaveMakesTableEqualGrid ==
    [][response'.op = "handleSaveChanges" =>
          LET n == reqs[User].tableName
              left == reqs[User].data
              stored == OrderById(tables'[n].rows)
              columns == GridColumns(tables, n)
          IN  /\ Len(stored) = Len(left)
              /\ \A i \in DOMAIN left \cap DOMAIN stored : \A j \in DOMAIN columns :
                    stored[i][columns[j].name] = ValueOrNull(left[i], columns[j].name)
              /\ \A r \in tables[n].rows :
                    (\A i \in DOMAIN left : ValueOrNull(left[i], idCol) # r[idCol])
                       => /\ \A q \in tables'[n].rows : q[idCol] # r[idCol]
                          /\ \A i \in DOMAIN reqs'[User].data :
                                ValueOrNull(reqs'[User].data[i], idCol) # r[idCol]]_vars

====
